---- MODULE Spec2Model ----
(***************************************************************************)
(* Model of bot/bot_helper.py (class BotHelper): the per-chat conversation *)
(* store, the history compression, the retried dispatch to the remote      *)
(* model and the streaming / non-streaming replies.                        *)
(*                                                                         *)
(* Texts are sequences over the two characters "a" (any non-blank) and " " *)
(* (whitespace), so that str.split() and str.strip() are computed.         *)
(* Time is in seconds.  A coroutine is cut at its awaits: each action is   *)
(* the code that runs between two suspension points.                       *)
(***************************************************************************)
EXTENDS Integers, Sequences, FiniteSets, TLC

VARIABLES
    config,               \* self.config (fixed after __init__)
    conversations,        \* self.conversations: chat_id -> list of turns
    conversations_vision, \* self.conversations_vision: chat_id -> bool
    last_updated,         \* self.last_updated: chat_id -> time
    now,                  \* datetime.datetime.now(), seconds
    op                    \* chat_id -> the call in flight (or finished) on it

vars == <<config, conversations, conversations_vision, last_updated, now, op>>

(***************************************************************************)
(* Bounds of the model.                                                    *)
(***************************************************************************)
\* the clock stops after MaxTicks steps of WaitFixed seconds
MaxTicks == 2
\* a new call is taken only while the chat holds fewer turns than MaxTurns
MaxTurns == 4
\* the largest number of turns drawn for a turn list in InitCount
MaxCountTurns == 3

(***************************************************************************)
(* Program constants.                                                      *)
(***************************************************************************)
SonetMaxTokens == 8192
OtherMaxTokens == 4000
WaitFixed == 20
StopAfterAttempt == 3
SecondsPerMinute == 60

(***************************************************************************)
(* Texts.                                                                  *)
(***************************************************************************)
SP == " "
EmptyText == <<>>
T_a == <<"a">>
T_a_a == <<"a", SP, "a">>
T_sp_a == <<SP, "a">>
T_a_a_a == <<"a", SP, "a", SP, "a">>
T_a__a_a_a_sp == <<"a", SP, SP, "a", SP, "a", SP, "a", SP>>

RECURSIVE Split(_, _)
\* str.split(): the number of maximal runs of non-whitespace characters;
\* inWord tells whether the character before text[1] was non-whitespace
Split(text, inWord) ==
    IF text = <<>> THEN 0
    ELSE IF Head(text) = SP THEN Split(Tail(text), FALSE)
    ELSE (IF inWord THEN 0 ELSE 1) + Split(Tail(text), TRUE)

\* len(content.split())
WordCount(text) == Split(text, FALSE)

RECURSIVE LStrip(_)
LStrip(text) ==
    IF text # <<>> /\ Head(text) = SP THEN LStrip(Tail(text)) ELSE text

RECURSIVE RStrip(_)
RStrip(text) ==
    IF text # <<>> /\ text[Len(text)] = SP
    THEN RStrip(SubSeq(text, 1, Len(text) - 1))
    ELSE text

\* str.strip()
Strip(text) == RStrip(LStrip(text))

\* whether needle occurs in hay as a contiguous run ("sonet" in model)
Contains(hay, needle) ==
    \E i \in 1..(Len(hay) - Len(needle) + 1) :
        SubSeq(hay, i, i + Len(needle) - 1) = needle

Sonet == <<"s", "o", "n", "e", "t">>
ModelSonnet == <<"s", "o", "n", "n", "e", "t">>
ModelSonet == <<"x", "s", "o", "n", "e", "t">>

\* default_max_tokens(model)
default_max_tokens(model) ==
    IF Contains(model, Sonet) THEN SonetMaxTokens ELSE OtherMaxTokens

(***************************************************************************)
(* Localized texts.                                                        *)
(***************************************************************************)
translations ==
    [en |-> [invalid_request |-> "Invalid request",
             error |-> "An error has occurred",
             stats_tokens |-> "tokens"]]

\* localized_text(key, bot_language)
localized_text(key, bot_language) ==
    IF bot_language \in DOMAIN translations
       /\ key \in DOMAIN translations[bot_language]
    THEN translations[bot_language][key]
    ELSE IF key \in DOMAIN translations["en"]
    THEN translations["en"][key]
    ELSE key

(***************************************************************************)
(* Turns and the helpers of BotHelper.                                     *)
(***************************************************************************)
Turn(role, content) == [role |-> role, content |-> content]

\* DictSet with a fault: every key of the dict is given v
DictSetAll(d, k, v) == [x \in (DOMAIN d) \cup {k} |-> v]

\* a dict with d[k] = v
DictSet(d, k, v) == [x \in (DOMAIN d) \cup {k} |-> IF x = k THEN v ELSE d[x]]

RECURSIVE TokenTenths(_)
\* total_tokens of __count_tokens before int(), in tenths: each message adds
\* len(content.split()) * 1.3, with 1.3 as 13/10
TokenTenths(messages) ==
    IF messages = <<>> THEN 0
    ELSE WordCount(Head(messages).content) * 13 + TokenTenths(Tail(messages))

RECURSIVE TokensEachTruncated(_)
\* count_tokens with a fault: int() applied to every message before summing
TokensEachTruncated(messages) ==
    IF messages = <<>> THEN 0
    ELSE (WordCount(Head(messages).content) * 13) \div 10
         + TokensEachTruncated(Tail(messages))

\* __count_tokens(messages): int(total_tokens)
count_tokens(messages) == TokenTenths(messages) \div 10

\* __max_model_tokens()
max_model_tokens == default_max_tokens(config.model)

\* the turn list reset_chat_history(chat_id, content) stores
ResetTurns(content) ==
    <<Turn("system", IF content = EmptyText THEN config.assistant_prompt
                     ELSE content)>>

\* max_age_reached with a fault: a chat exactly max age old counts as expired
max_age_reached_inclusive(chat_id, t) ==
    IF chat_id \notin DOMAIN last_updated THEN FALSE
    ELSE last_updated[chat_id]
           <= t - config.max_conversation_age_minutes * SecondsPerMinute

\* __max_age_reached(chat_id), with datetime.now() = t
max_age_reached(chat_id, t) ==
    IF chat_id \notin DOMAIN last_updated THEN FALSE
    ELSE last_updated[chat_id]
           < t - config.max_conversation_age_minutes * SecondsPerMinute

\* NeedsCompression with a fault: the turn count is not looked at
NeedsCompressionTokensOnly(conv) ==
    count_tokens(conv) + config.max_tokens > max_model_tokens

\* NeedsCompression with a fault: the token count is not looked at
NeedsCompressionTurnsOnly(conv) == Len(conv) > config.max_history_size

\* the condition of the history management (lines 100-101)
NeedsCompression(conv) ==
    \/ count_tokens(conv) + config.max_tokens > max_model_tokens
    \/ Len(conv) > config.max_history_size

\* Truncate with a fault: the first turns are kept instead of the last
TruncateKeepFirst(conv) ==
    SubSeq(conv, 1, IF Len(conv) < config.max_history_size THEN Len(conv)
                    ELSE config.max_history_size)

\* conv[-max_history_size:]
Truncate(conv) ==
    LET n == config.max_history_size
        len == Len(conv)
    IN  IF n = 0 THEN conv
        ELSE IF n > 0 THEN SubSeq(conv, (IF len > n THEN len - n + 1 ELSE 1), len)
        ELSE SubSeq(conv, (IF -n > len THEN len + 1 ELSE 1 - n), len)

\* the history after a successful summary (lines 104-106)
Summarised(conv, summary, query) ==
    ResetTurns(conv[1].content)
        \o <<Turn("assistant", summary), Turn("user", query)>>

None == [present |-> FALSE, content |-> EmptyText]
Some(text) == [present |-> TRUE, content |-> text]

RECURSIVE FirstSystem(_)
\* next((msg['content'] for msg in conv if msg['role'] == 'system'), None)
FirstSystem(conv) ==
    IF conv = <<>> THEN None
    ELSE IF Head(conv).role = "system" THEN Some(Head(conv).content)
    ELSE FirstSystem(Tail(conv))

IsChatTurn(msg) == msg.role \in {"user", "assistant"}

\* the arguments of client.messages.create (lines 112-125)
BuildRequest(conv) ==
    [sent |-> TRUE, system |-> FirstSystem(conv),
     messages |-> SelectSeq(conv, IsChatTurn)]

NoRequest == [sent |-> FALSE, system |-> None, messages |-> <<>>]

\* CommitFull with a fault: the reply is added after the usage suffix (four
\* more words) was appended to it
CommitFullWithUsage(conv, text) ==
    Append(conv, Turn("assistant",
                      text \o <<SP, "a", SP, "a", SP, "a", SP, "a">>))

\* the history after get_chat_response has added the reply (lines 55-56)
CommitFull(conv, text) == Append(conv, Turn("assistant", text))

\* Accumulate with a fault: the last delta replaces the text received so far
AccumulateLast(answer, chunk) ==
    IF chunk.type = "content_block_delta" THEN chunk.text ELSE answer

\* the body of the loop over the stream (lines 70-71)
Accumulate(answer, chunk) ==
    IF chunk.type = "content_block_delta" THEN answer \o chunk.text ELSE answer

RECURSIVE StreamAnswer(_, _)
\* answer when the loop over chunks is left (lines 68-71)
StreamAnswer(chunks, answer) ==
    IF chunks = <<>> THEN answer
    ELSE StreamAnswer(Tail(chunks), Accumulate(answer, Head(chunks)))

\* the history after get_chat_response_stream has added the reply
\* (lines 74-75)
CommitStream(conv, answer) == Append(conv, Turn("assistant", Strip(answer)))

(***************************************************************************)
(* Errors.                                                                 *)
(***************************************************************************)
ProviderErrors == {"RateLimitError", "BadRequestError", "APIConnectionError"}

\* an exception as the remote client raises it
Raw(cls) == [cls |-> cls, prefix |-> "", detail |-> cls]

\* Exception(f"... {localized_text(key, bot_language)} ...\n{str(e)}")
Wrapped(key, cls) ==
    [cls |-> "Exception", prefix |-> localized_text(key, config.bot_language),
     detail |-> cls]

\* the except clauses of __common_get_chat_response (lines 127-132)
Classify(cls) ==
    IF cls = "RateLimitError" THEN Raw(cls)
    ELSE IF cls = "BadRequestError" THEN Wrapped("invalid_request", cls)
    ELSE Wrapped("error", cls)

\* InnerExceptCatches with a fault: a rate-limit error of the summarisation
\* is not caught
InnerExceptMissesRateLimit(cls) == cls \notin {"CancelledError", "RateLimitError"}

\* "except Exception" around the summarisation (line 107): every exception
\* but a BaseException such as CancelledError
InnerExceptCatches(cls) == cls # "CancelledError"

\* ShouldRetry with a fault: every exception is retried
ShouldRetryAny(exc, attempt) == attempt < StopAfterAttempt

\* the retry decorator: retry_if_exception_type(RateLimitError) and
\* stop_after_attempt(3)
ShouldRetry(exc, attempt) ==
    exc.cls = "RateLimitError" /\ attempt < StopAfterAttempt

(***************************************************************************)
(* Inputs: chat ids, queries, what the remote model answers.               *)
(***************************************************************************)
ChatA == 101
ChatB == 202
Queries == {T_a, T_a_a}
ReplyTexts == {T_a, T_sp_a}
Summaries == {T_a}
ResetContents == {EmptyText, T_a_a}

BaseConfig ==
    [model |-> ModelSonnet, max_tokens |-> 1000, max_history_size |-> 3,
     max_conversation_age_minutes |-> 1, assistant_prompt |-> T_a,
     show_usage |-> TRUE, bot_language |-> "en"]

\* the turn-count limit decides; usage shown; no chat expires within the
\* model's clock
CfgTurns == BaseConfig
\* MAX_TOKENS close to the model limit: the token count decides; usage
\* hidden; a chat expires as soon as time has passed
CfgTokens ==
    [BaseConfig EXCEPT !.max_tokens = 3998, !.show_usage = FALSE,
                       !.max_conversation_age_minutes = 0]

(***************************************************************************)
(* The call in flight on a chat id.  pc is the await the coroutine is      *)
(* suspended at: "summarise" (line 103), "create" (line 118), "wait" (the  *)
(* retry's sleep), "stream" (line 69); "done" once the call has returned   *)
(* or raised, and "idle" when no call is running.                          *)
(* The fields from pre on record what the call has done so far: pre the   *)
(* turns right after the query was added, path the history management     *)
(* taken, sum_exc what the summarisation raised, loaded the branch of line *)
(* 92, log what each messages.create of the dispatch gave, commits and     *)
(* admits the replies and queries added.  request, pre, path, sum_exc and  *)
(* loaded are those of the attempt that is waiting for messages.create.    *)
(***************************************************************************)
NoOut == [status |-> "none", at |-> "", exc |-> Raw(""),
          text |-> EmptyText, usage |-> <<>>, tokens |-> <<>>, count |-> 0]

IdleFrame ==
    [pc |-> "idle", kind |-> "", query |-> EmptyText, attempt |-> 0,
     wake_at |-> 0, request |-> NoRequest, answer |-> EmptyText,
     chunks |-> <<>>, yielded |-> <<>>, out |-> NoOut,
     pre |-> <<>>, path |-> "", sum_exc |-> "", loaded |-> "",
     log |-> <<>>, commits |-> 0, admits |-> 0]

InFlight(s) == op[s].pc \in {"summarise", "create", "wait", "stream"}

\* what get_chat_response / the last element of the stream carries
Returned(answer, tokens, tokensAs) ==
    [NoOut EXCEPT !.status = "returned", !.text = answer,
                  !.usage = IF config.show_usage
                            THEN <<tokens, localized_text("stats_tokens",
                                                          config.bot_language)>>
                            ELSE <<>>,
                  !.tokens = <<tokensAs, tokens>>]

Raised(exc, at) == [NoOut EXCEPT !.status = "raised", !.exc = exc, !.at = at]

\* messages.create has returned or raised: the attempt's request is over
Answered(fr, result) ==
    [fr EXCEPT !.log = Append(@, result), !.request = NoRequest, !.pre = <<>>,
               !.path = "", !.sum_exc = "", !.loaded = ""]

\* the call fr has ended with out: what it held only for its awaits is dropped
Ended(fr, out) ==
    [fr EXCEPT !.pc = "done", !.out = out, !.request = NoRequest,
               !.chunks = <<>>, !.wake_at = 0, !.pre = <<>>, !.path = "",
               !.sum_exc = "", !.loaded = ""]

\* the chunks of a streamed reply: a chunk of another type (message_start),
\* then one content_block_delta per character
StreamOf(text) ==
    <<[type |-> "message_start", text |-> EmptyText]>>
    \o [i \in 1..Len(text) |-> [type |-> "content_block_delta",
                                text |-> <<text[i]>>]]

(***************************************************************************)
(* Initial states.                                                         *)
(***************************************************************************)
InitStore(ids) ==
    /\ conversations = <<>>
    /\ conversations_vision = <<>>
    /\ last_updated = <<>>
    /\ now = 0
    /\ op = [s \in ids |-> IdleFrame]

Init ==
    /\ config \in {CfgTurns, CfgTokens}
    /\ InitStore({ChatA})

(***************************************************************************)
(* __common_get_chat_response up to its first await (lines 90-118), run by *)
(* every attempt of the retry decorator, at time t, for the call fr.       *)
(***************************************************************************)
Attempt(s, t, fr) ==
    LET fresh == s \notin DOMAIN conversations \/ max_age_reached(s, t)
        conv0 == IF fresh THEN ResetTurns(EmptyText) ELSE conversations[s]
        conv1 == Append(conv0, Turn("user", fr.query))
        trig  == NeedsCompression(conv1)
    IN  /\ conversations' = DictSet(conversations, s, conv1)
        /\ conversations_vision' =
              IF fresh THEN DictSet(conversations_vision, s, FALSE)
              ELSE conversations_vision
        /\ last_updated' = DictSet(last_updated, s, t)
        /\ op' = [op EXCEPT ![s] =
              [fr EXCEPT !.pc = IF trig THEN "summarise" ELSE "create",
                         !.request = IF trig THEN NoRequest
                                     ELSE BuildRequest(conv1),
                         !.pre = conv1,
                         !.path = IF trig THEN "pending" ELSE "none",
                         !.sum_exc = "",
                         !.loaded = IF s \notin DOMAIN conversations THEN "absent"
                                    ELSE IF fresh THEN "expired" ELSE "kept",
                         !.admits = @ + 1]]

\* get_chat_response(chat_id, query) / get_chat_response_stream(chat_id, query)
\* is called: the first attempt runs to its first await
Call(s, kind, query) ==
    /\ op[s].pc = "idle"
    /\ s \in DOMAIN conversations => Len(conversations[s]) < MaxTurns
    /\ Attempt(s, now, [IdleFrame EXCEPT !.kind = kind, !.query = query,
                                         !.attempt = 1])
    /\ UNCHANGED <<config, now>>

\* the summary arrives (lines 103-106)
SummariseOk(s, summary) ==
    /\ op[s].pc = "summarise"
    /\ LET conv == Summarised(conversations[s], summary, op[s].query)
       IN  /\ conversations' = [conversations EXCEPT ![s] = conv]
           /\ conversations_vision' = [conversations_vision EXCEPT ![s] = FALSE]
           /\ op' = [op EXCEPT ![s].pc = "create", ![s].path = "summarise",
                               ![s].request = BuildRequest(conv)]
    /\ UNCHANGED <<config, last_updated, now>>

\* what follows an exception that leaves the try block of
\* __common_get_chat_response at the await named by at: the except clauses
\* (lines 127-132), then the retry decorator
Propagate(fr, cls, at) ==
    LET exc == Classify(cls)
    IN  IF ShouldRetry(exc, fr.attempt)
        THEN [fr EXCEPT !.pc = "wait", !.wake_at = now + WaitFixed,
                        !.request = NoRequest]
        ELSE Ended(fr, Raised(exc, at))

\* the summarisation raises (lines 107-109)
SummariseFails(s, cls) ==
    /\ op[s].pc = "summarise"
    /\ LET conv == Truncate(conversations[s])
       IN  IF InnerExceptCatches(cls)
           THEN /\ conversations' = [conversations EXCEPT ![s] = conv]
                /\ op' = [op EXCEPT ![s].pc = "create", ![s].path = "truncate",
                                    ![s].sum_exc = cls,
                                    ![s].request = BuildRequest(conv)]
           ELSE /\ op' = [op EXCEPT ![s] = Propagate(@, cls, "summarise")]
                /\ UNCHANGED conversations
    /\ UNCHANGED <<config, conversations_vision, last_updated, now>>

\* messages.create returns the full reply: get_chat_response lines 55-63
CreateOkFull(s, text) ==
    /\ op[s].pc = "create" /\ op[s].kind = "chat"
    /\ LET conv == CommitFull(conversations[s], text)
       IN  /\ conversations' = [conversations EXCEPT ![s] = conv]
           /\ op' = [op EXCEPT ![s] =
                 Ended([Answered(@, "ok") EXCEPT !.answer = text,
                                                 !.commits = @ + 1],
                       IF config.show_usage
                       THEN Returned(text, count_tokens(conv), "int")
                       ELSE Raised(Raw("UnboundLocalError"), "report"))]
    /\ UNCHANGED <<config, conversations_vision, last_updated, now>>

\* messages.create(stream=True) returns the stream: lines 66-69
CreateOkStream(s, text) ==
    /\ op[s].pc = "create" /\ op[s].kind = "stream"
    /\ op' = [op EXCEPT ![s] =
             [Answered(@, "ok") EXCEPT !.pc = "stream", !.answer = EmptyText,
                                       !.chunks = StreamOf(text)]]
    /\ UNCHANGED <<config, conversations, conversations_vision, last_updated, now>>

\* messages.create raises: the except clauses, then the retry decorator
CreateFails(s, cls) ==
    /\ op[s].pc = "create"
    /\ op' = [op EXCEPT ![s] =
             Propagate(Answered(@, cls), cls, "dispatch")]
    /\ UNCHANGED <<config, conversations, conversations_vision, last_updated, now>>

\* the retry's sleep is over: the next attempt runs to its first await
RetryWake(s) ==
    /\ op[s].pc = "wait"
    /\ LET t == IF now < op[s].wake_at THEN op[s].wake_at ELSE now
       IN  /\ t <= MaxTicks * WaitFixed
           /\ now' = t
           /\ Attempt(s, t, [op[s] EXCEPT !.attempt = @ + 1])
    /\ UNCHANGED config

\* the stream delivers its next chunk (lines 69-72)
StreamChunk(s) ==
    /\ op[s].pc = "stream" /\ op[s].chunks # <<>>
    /\ LET chunk == Head(op[s].chunks)
           answer == Accumulate(op[s].answer, chunk)
       IN  op' = [op EXCEPT
                 ![s].chunks = Tail(@),
                 ![s].answer = answer,
                 ![s].yielded = IF chunk.type = "content_block_delta"
                                THEN Append(@, [text |-> answer, usage |-> <<>>,
                                                status |-> <<"not_finished">>])
                                ELSE @]
    /\ UNCHANGED <<config, conversations, conversations_vision, last_updated, now>>

\* the stream is exhausted (lines 74-81)
StreamEnd(s) ==
    /\ op[s].pc = "stream" /\ op[s].chunks = <<>>
    /\ LET conv == CommitStream(conversations[s], op[s].answer)
           answer == conv[Len(conv)].content
           out == Returned(answer, count_tokens(conv), "str")
       IN  /\ conversations' = [conversations EXCEPT ![s] = conv]
           /\ op' = [op EXCEPT ![s] =
                 Ended([@ EXCEPT !.answer = answer, !.commits = @ + 1,
                           !.yielded = Append(@, [text |-> out.text,
                                                  usage |-> out.usage,
                                                  status |-> out.tokens])],
                       out)]
    /\ UNCHANGED <<config, conversations_vision, last_updated, now>>

\* the stream raises while it is consumed (line 69, outside any try)
StreamFails(s, cls) ==
    /\ op[s].pc = "stream"
    /\ op' = [op EXCEPT ![s] = Ended(@, Raised(Raw(cls), "stream"))]
    /\ UNCHANGED <<config, conversations, conversations_vision, last_updated, now>>

\* the caller cancels the call at the await it is suspended at
Cancel(s) ==
    /\ InFlight(s)
    /\ op' = [op EXCEPT ![s] = Ended(@, Raised(Raw("CancelledError"), @.pc))]
    /\ UNCHANGED <<config, conversations, conversations_vision, last_updated, now>>

\* ResetChatHistory with a fault: the reset also stamps last_updated
ResetChatHistoryStamps(s, content) ==
    /\ op[s].pc = "idle"
    /\ conversations' = DictSet(conversations, s, ResetTurns(content))
    /\ conversations_vision' = DictSet(conversations_vision, s, FALSE)
    /\ last_updated' = DictSet(last_updated, s, now)
    /\ op' = [op EXCEPT ![s] = [IdleFrame EXCEPT !.pc = "done", !.kind = "reset"]]
    /\ UNCHANGED <<config, now>>

\* reset_chat_history(chat_id, content)
ResetChatHistory(s, content) ==
    /\ op[s].pc = "idle"
    /\ conversations' = DictSet(conversations, s, ResetTurns(content))
    /\ conversations_vision' = DictSet(conversations_vision, s, FALSE)
    /\ op' = [op EXCEPT ![s] = [IdleFrame EXCEPT !.pc = "done", !.kind = "reset"]]
    /\ UNCHANGED <<config, last_updated, now>>

\* GetConversationStats with a fault: the chat is reset whether or not it
\* exists
GetConversationStatsResets(s) ==
    /\ op[s].pc = "idle"
    /\ LET conv == ResetTurns(EmptyText)
       IN  /\ conversations' = DictSet(conversations, s, conv)
           /\ conversations_vision' = DictSet(conversations_vision, s, FALSE)
           /\ op' = [op EXCEPT ![s] =
                 [IdleFrame EXCEPT !.pc = "done", !.kind = "stats",
                     !.out = [NoOut EXCEPT !.status = "returned",
                                 !.count = Len(conv),
                                 !.tokens = <<"int", count_tokens(conv)>>]]]
    /\ UNCHANGED <<config, last_updated, now>>

\* get_conversation_stats(chat_id)
GetConversationStats(s) ==
    /\ op[s].pc = "idle"
    /\ LET absent == s \notin DOMAIN conversations
           conv == IF absent THEN ResetTurns(EmptyText) ELSE conversations[s]
       IN  /\ conversations' = DictSet(conversations, s, conv)
           /\ conversations_vision' =
                 IF absent THEN DictSet(conversations_vision, s, FALSE)
                 ELSE conversations_vision
           /\ op' = [op EXCEPT ![s] =
                 [IdleFrame EXCEPT !.pc = "done", !.kind = "stats",
                     !.loaded = IF absent THEN "absent" ELSE "kept",
                     !.out = [NoOut EXCEPT !.status = "returned",
                                 !.count = Len(conv),
                                 !.tokens = <<"int", count_tokens(conv)>>]]]
    /\ UNCHANGED <<config, last_updated, now>>

\* the collaborator that adds image content marks the chat
SetVision(s) ==
    /\ op[s].pc = "idle"
    /\ s \in DOMAIN conversations_vision
    /\ conversations_vision[s] = FALSE
    /\ conversations_vision' = [conversations_vision EXCEPT ![s] = TRUE]
    /\ UNCHANGED <<config, conversations, last_updated, now, op>>

\* the caller has taken what the call returned or raised
Finish(s) ==
    /\ op[s].pc = "done"
    /\ op' = [op EXCEPT ![s] = IdleFrame]
    /\ UNCHANGED <<config, conversations, conversations_vision, last_updated, now>>

\* time passes; none passes between the end of a call and its caller going on
Tick ==
    /\ \A s \in DOMAIN op : op[s].pc # "done"
    /\ now + WaitFixed <= MaxTicks * WaitFixed
    /\ now' = now + WaitFixed
    /\ UNCHANGED <<config, conversations, conversations_vision, last_updated, op>>

Next ==
    \/ \E s \in DOMAIN op, q \in Queries : Call(s, "chat", q)
    \/ \E s \in DOMAIN op, q \in Queries : Call(s, "stream", q)
    \/ \E s \in DOMAIN op, t \in Summaries : SummariseOk(s, t)
    \/ \E s \in DOMAIN op, e \in ProviderErrors : SummariseFails(s, e)
    \/ \E s \in DOMAIN op, t \in ReplyTexts : CreateOkFull(s, t)
    \/ \E s \in DOMAIN op, t \in ReplyTexts : CreateOkStream(s, t)
    \/ \E s \in DOMAIN op, e \in ProviderErrors : CreateFails(s, e)
    \/ \E s \in DOMAIN op : RetryWake(s)
    \/ \E s \in DOMAIN op : StreamChunk(s)
    \/ \E s \in DOMAIN op : StreamEnd(s)
    \/ \E s \in DOMAIN op, e \in ProviderErrors : StreamFails(s, e)
    \/ \E s \in DOMAIN op : Cancel(s)
    \/ \E s \in DOMAIN op, c \in ResetContents : ResetChatHistory(s, c)
    \/ \E s \in DOMAIN op : GetConversationStats(s)
    \/ \E s \in DOMAIN op : SetVision(s)
    \/ \E s \in DOMAIN op : Finish(s)
    \/ Tick

Spec == Init /\ [][Next]_vars

(***************************************************************************)
(* get_conversation_stats on turn lists of up to MaxCountTurns turns whose *)
(* contents hold 0 to 4 words.                                             *)
(***************************************************************************)
CountTexts == {EmptyText, T_a, T_sp_a, T_a_a, T_a_a_a, T_a__a_a_a_sp}

\* the turn lists of n turns: a system turn, then user and assistant turns
CountLists(n) ==
    {[i \in 1..n |-> Turn(IF i = 1 THEN "system"
                          ELSE IF i % 2 = 0 THEN "user" ELSE "assistant", f[i])] :
        f \in [1..n -> CountTexts]}

InitCount ==
    /\ config = CfgTurns
    /\ \E n \in 1..MaxCountTurns : \E conv \in CountLists(n) :
           conversations = (ChatA :> conv)
    /\ conversations_vision = (ChatA :> FALSE)
    /\ last_updated = <<>>
    /\ now = 0
    /\ op = [s \in {ChatA} |-> IdleFrame]

NextCount ==
    \/ \E s \in DOMAIN op : GetConversationStats(s)
    \/ \E s \in DOMAIN op : Finish(s)

SpecCount == InitCount /\ [][NextCount]_vars

(***************************************************************************)
(* Two chat ids served by one BotHelper: calls of get_chat_response on     *)
(* both, interleaved at their awaits, with one query, one reply text and   *)
(* rate-limit errors.                                                      *)
(***************************************************************************)
InitTwo ==
    /\ config = CfgTurns
    /\ InitStore({ChatA, ChatB})

NextTwo ==
    \/ \E s \in DOMAIN op : Call(s, "chat", T_a)
    \/ \E s \in DOMAIN op : SummariseOk(s, T_a)
    \/ \E s \in DOMAIN op : SummariseFails(s, "RateLimitError")
    \/ \E s \in DOMAIN op : CreateOkFull(s, T_a)
    \/ \E s \in DOMAIN op : CreateFails(s, "RateLimitError")
    \/ \E s \in DOMAIN op : RetryWake(s)
    \/ \E s \in DOMAIN op : ResetChatHistory(s, EmptyText)
    \/ \E s \in DOMAIN op : SetVision(s)
    \/ \E s \in DOMAIN op : Finish(s)
    \/ Tick

SpecTwo == InitTwo /\ [][NextTwo]_vars

(***************************************************************************)
(* The configurations main.py builds when MAX_TOKENS is not set or is set  *)
(* to the limit of the model or above it, with the default history size    *)
(* and age.                                                                *)
(***************************************************************************)
\* the defaults: ANTHROPIC_MODEL holds "sonnet", MAX_TOKENS is
\* default_max_tokens(model)
CfgDefault ==
    [BaseConfig EXCEPT !.max_tokens = default_max_tokens(ModelSonnet),
                       !.max_history_size = 15,
                       !.max_conversation_age_minutes = 180]
\* a model name that holds "sonet", MAX_TOKENS left to its default
CfgSonet ==
    [CfgDefault EXCEPT !.model = ModelSonet,
                       !.max_tokens = default_max_tokens(ModelSonet)]
\* the default model with MAX_TOKENS = 8192
CfgAbove == [CfgDefault EXCEPT !.max_tokens = SonetMaxTokens]
\* the defaults with an ASSISTANT_PROMPT that holds no word
CfgBlank == [CfgDefault EXCEPT !.assistant_prompt = <<SP>>]

InitDefaults ==
    /\ config \in {CfgDefault, CfgSonet, CfgAbove, CfgBlank}
    /\ InitStore({ChatA})

NextDefaults ==
    \/ \E s \in DOMAIN op, q \in {EmptyText, T_a} : Call(s, "chat", q)
    \/ \E s \in DOMAIN op, q \in {EmptyText, T_a} : Call(s, "stream", q)
    \/ \E s \in DOMAIN op, t \in Summaries : SummariseOk(s, t)
    \/ \E s \in DOMAIN op : SummariseFails(s, "APIConnectionError")
    \/ \E s \in DOMAIN op, t \in {EmptyText, T_a} : CreateOkFull(s, t)
    \/ \E s \in DOMAIN op, t \in {EmptyText, T_a} : CreateOkStream(s, t)
    \/ \E s \in DOMAIN op : CreateFails(s, "RateLimitError")
    \/ \E s \in DOMAIN op : RetryWake(s)
    \/ \E s \in DOMAIN op : StreamChunk(s)
    \/ \E s \in DOMAIN op : StreamEnd(s)
    \/ \E s \in DOMAIN op : Finish(s)
    \/ Tick

SpecDefaults == InitDefaults /\ [][NextDefaults]_vars

(***************************************************************************)
(* Properties.                                                             *)
(***************************************************************************)
Chats == DOMAIN op
LastTurn(conv) == conv[Len(conv)]
RateLimited == "RateLimitError"

\* C1: in every reachable state the turn at index 0 of every initialized
\* chat has role system, whatever calls, summaries and truncations came before.
C1_TurnZeroIsSystem ==
    \A s \in DOMAIN conversations :
        /\ conversations[s] # <<>>
        /\ conversations[s][1].role = "system"

\* C2, for one step of chat s: a messages.create of the dispatch that raises
\* a rate-limit error is followed by a wait of WaitFixed seconds and another
\* attempt while fewer than 3 attempts were made, and by the unchanged
\* rate-limit error reaching the caller at the third; one that raises
\* anything else ends the call at once; one that succeeds is followed by no
\* further attempt; an attempt starts only as the first or after a wait.
C2_Step(s) ==
    LET fr  == op[s]
        fr2 == op'[s]
        n   == Len(fr.log)
        returns == fr.pc = "create" /\ Len(fr2.log) = n + 1
        res == fr2.log[n + 1]
    IN  /\ (returns /\ res = RateLimited /\ n + 1 < 3) =>
               /\ fr2.pc = "wait"
               /\ fr2.wake_at = now + 20
               /\ fr2.out.status = "none"
        /\ (returns /\ res = RateLimited /\ n + 1 >= 3) =>
               /\ fr2.log = <<RateLimited, RateLimited, RateLimited>>
               /\ fr2.pc = "done"
               /\ fr2.out.status = "raised"
               /\ fr2.out.exc = [cls |-> RateLimited, prefix |-> "",
                                 detail |-> RateLimited]
        /\ (returns /\ res \notin {"ok", RateLimited}) =>
               /\ fr2.pc = "done"
               /\ fr2.out.status = "raised"
               /\ fr2.out.exc.cls # RateLimited
        /\ (returns /\ res = "ok") => fr2.pc \in {"stream", "done"}
        /\ (fr2.pc = "create" /\ fr.pc # "create") =>
               /\ Len(fr2.log) = fr2.attempt - 1
               /\ fr2.attempt <= 3
               /\ \A i \in 1..Len(fr2.log) : fr2.log[i] = RateLimited
        /\ (fr2.attempt > fr.attempt /\ fr.attempt > 0) =>
               /\ fr.pc = "wait"
               /\ fr2.attempt = fr.attempt + 1
               /\ now' >= fr.wake_at
               /\ fr.log[n] = RateLimited

\* C2: the retry policy of the dispatch, at every step
C2_RetryPolicy == [][\A s \in Chats : C2_Step(s)]_vars

\* C2 witness: a call has ended with the rate-limit error after 3 attempts
C2_Witness ==
    \E s \in Chats :
        /\ op[s].pc = "done"
        /\ op[s].log = <<RateLimited, RateLimited, RateLimited>>
        /\ op[s].out.status = "raised"
        /\ op[s].out.exc.cls = RateLimited

\* a call of get_chat_response(_stream) that ended because its dispatch
\* failed: messages.create raised, the stream raised, or the call was
\* cancelled at one of its awaits
DispatchFailed(s) ==
    /\ op[s].pc = "done"
    /\ op[s].kind \in {"chat", "stream"}
    /\ op[s].out.status = "raised"
    /\ op[s].out.at # "report"

\* C3: when a call ends because its dispatch failed, no reply turn was added
\* for it, and the last turn of the chat is the user turn of its query.
C3_NoReplyOnFailure ==
    \A s \in Chats :
        DispatchFailed(s) =>
            /\ op[s].commits = 0
            /\ s \in DOMAIN conversations
            /\ LastTurn(conversations[s]) = [role |-> "user",
                                             content |-> op[s].query]

\* C3 witness: a stream has raised after part of the reply was received
C3_Witness ==
    \E s \in Chats :
        /\ DispatchFailed(s)
        /\ op[s].out.at = "stream"
        /\ op[s].out.exc.cls \in ProviderErrors
        /\ op[s].answer # <<>>

\* the condition of C4 on the turns held once the query was added
C4_Trigger(pre) ==
    \/ count_tokens(pre) + config.max_tokens > default_max_tokens(config.model)
    \/ Len(pre) > config.max_history_size

\* C4: while the summary is awaited no messages.create of the dispatch has
\* been issued; when the dispatch is issued, the history was rewritten exactly
\* if the condition held for the turns with the new query, and it is then
\* either [system, assistant (the summary), user (the query)] or the last
\* max_history_size turns of those turns (all of them when there are fewer),
\* the query's user turn last.
C4_CompressionBeforeDispatch ==
    \A s \in Chats :
        LET fr   == op[s]
            conv == conversations[s]
            pre  == fr.pre
            keep == IF Len(pre) < config.max_history_size THEN Len(pre)
                    ELSE config.max_history_size
            user == [role |-> "user", content |-> fr.query]
        IN  /\ fr.pc = "summarise" =>
                   /\ C4_Trigger(pre)
                   /\ ~fr.request.sent
                   /\ conv = pre
            /\ fr.pc = "create" =>
                   /\ fr.request.sent
                   /\ C4_Trigger(pre) <=> fr.path \in {"summarise", "truncate"}
                   /\ ~C4_Trigger(pre) => conv = pre
                   /\ LastTurn(pre) = user
                   /\ fr.path = "summarise" =>
                          /\ Len(conv) = 3
                          /\ conv[1].role = "system"
                          /\ conv[2].role = "assistant"
                          /\ conv[2].content \in Summaries
                          /\ conv[3] = user
                   /\ fr.path = "truncate" =>
                          /\ Len(conv) = keep
                          /\ \A i \in 1..keep : conv[i] = pre[Len(pre) - keep + i]
                          /\ LastTurn(conv) = user

\* C4 witness: a dispatch is issued after a truncation that dropped turns
C4_Witness ==
    \E s \in Chats :
        /\ op[s].pc = "create"
        /\ op[s].path = "truncate"
        /\ Len(op[s].pre) > config.max_history_size
        /\ Len(conversations[s]) = config.max_history_size

\* the step starts an attempt of a call on s (its query is added)
AttemptStarts(s) == op'[s].admits > op[s].admits
\* the step starts a call on s
CallStarts(s) == op[s].pc = "idle" /\ AttemptStarts(s)
\* at the time of the step, s does not exist or is older than the maximum age
Stale(s) ==
    \/ s \notin DOMAIN conversations
    \/ /\ s \in DOMAIN last_updated
       /\ now' - last_updated[s] > config.max_conversation_age_minutes * 60
\* the step is reset_chat_history on s
ExplicitReset(s) == op[s].pc = "idle" /\ op'[s].kind = "reset"
\* the step is the arrival of the summary on s
SummaryArrives(s) == op[s].pc = "summarise" /\ op'[s].path = "summarise"
\* the step turns the vision flag of s from true to false
VisionCleared(s) ==
    /\ s \in DOMAIN conversations_vision
    /\ conversations_vision[s]
    /\ ~conversations_vision'[s]
IsPrefix(a, b) == Len(a) <= Len(b) /\ SubSeq(b, 1, Len(a)) = a
IsSuffix(a, b) == Len(a) <= Len(b) /\ SubSeq(b, Len(b) - Len(a) + 1, Len(b)) = a
\* the step replaces the turns of s: they are neither extended nor cut to
\* their last turns
Reseeded(s) ==
    /\ s \in DOMAIN conversations
    /\ ~IsPrefix(conversations[s], conversations'[s])
    /\ ~IsSuffix(conversations'[s], conversations[s])
\* what an attempt that starts on s leaves: the turns of a fresh chat when s
\* is stale, else those s had, and the query
LoadsExactly(s) ==
    AttemptStarts(s) =>
        LET base == IF Stale(s)
                    THEN <<[role |-> "system",
                            content |-> config.assistant_prompt]>>
                    ELSE conversations[s]
        IN  /\ conversations'[s] =
                  Append(base, [role |-> "user", content |-> op'[s].query])
            /\ conversations_vision'[s] =
                  IF Stale(s) THEN FALSE ELSE conversations_vision[s]

\* C5 as claimed: the turns of a chat are replaced and its vision flag is
\* cleared only by a call that starts on a chat that is absent or older than
\* the maximum age, or by reset_chat_history, and every call that starts
\* re-initializes exactly in those cases.
C5_ReinitOnlyAtCallStart ==
    [][\A s \in Chats :
          /\ (VisionCleared(s) \/ Reseeded(s)) =>
                 (CallStarts(s) /\ Stale(s)) \/ ExplicitReset(s)
          /\ LoadsExactly(s)]_vars

\* C5 as amended: the same, with the two further places that re-initialize:
\* the start of a retried attempt on a chat that has become older than the
\* maximum age, and the arrival of the summary, which always clears the flag.
C5_ReinitExactly ==
    [][\A s \in Chats :
          /\ (VisionCleared(s) \/ Reseeded(s)) =>
                 \/ AttemptStarts(s) /\ Stale(s)
                 \/ ExplicitReset(s)
                 \/ SummaryArrives(s)
          /\ LoadsExactly(s)
          /\ SummaryArrives(s) => ~conversations_vision'[s]]_vars

\* C5 witness: a call found its chat older than the maximum age and holds one
\* system turn and its query
C5_Witness ==
    \E s \in Chats :
        /\ op[s].loaded = "expired"
        /\ op[s].pc \in {"summarise", "create"}
        /\ Len(op[s].pre) = 2
        /\ conversations[s] = op[s].pre
        /\ ~conversations_vision[s]

\* C6: from the same turns and for the same reply text, the turns after
\* get_chat_response has added the reply are those after
\* get_chat_response_stream has added it, the stream delivering the text in
\* deltas; stated in every state where a dispatch is awaited.
C6_SameCommit ==
    \A s \in Chats :
        op[s].pc = "create" =>
            \A t \in ReplyTexts :
                CommitFull(conversations[s], t)
                    = CommitStream(conversations[s],
                                   StreamAnswer(StreamOf(t), EmptyText))

\* C7: a call of get_chat_response whose messages.create succeeded has
\* returned the pair of the reply text and the token count of the turns with
\* the reply added, whether show_usage is set or not.
C7_ReturnsPair ==
    \A s \in Chats :
        (/\ op[s].pc = "done"
         /\ op[s].kind = "chat"
         /\ op[s].log # <<>>
         /\ LastTurn(op[s].log) = "ok") =>
            /\ op[s].out.status = "returned"
            /\ op[s].out.text = op[s].answer
            /\ op[s].out.tokens = <<"int", count_tokens(conversations[s])>>

\* the number of words of a text: the places where a word begins
WordsIn(text) ==
    Cardinality({i \in 1..Len(text) :
                    text[i] # " " /\ (i = 1 \/ text[i - 1] = " ")})

RECURSIVE TotalWords(_)
TotalWords(turns) ==
    IF turns = <<>> THEN 0
    ELSE WordsIn(Head(turns).content) + TotalWords(Tail(turns))

RECURSIVE SumOfRounded(_)
\* the sum over the turns of round(words * 1.3), 1.3 as 13/10
SumOfRounded(turns) ==
    IF turns = <<>> THEN 0
    ELSE (13 * WordsIn(Head(turns).content) + 5) \div 10
         + SumOfRounded(Tail(turns))

StatsReturned(s) ==
    op[s].pc = "done" /\ op[s].kind = "stats" /\ op[s].out.status = "returned"

\* C8 as claimed: the token count get_conversation_stats returns is the sum
\* over the turns of round(words * 1.3).
C8_SumOfRounded ==
    \A s \in Chats :
        StatsReturned(s) => op[s].out.tokens[2] = SumOfRounded(conversations[s])

\* C8 as amended: the token count is the sum over the turns of words * 1.3
\* cut to a whole number once, after the summing: the largest r with
\* 10 * r <= 13 * (total words).
C8_TruncatedSum ==
    \A s \in Chats :
        StatsReturned(s) =>
            LET r == op[s].out.tokens[2]
                w == TotalWords(conversations[s])
            IN  /\ 10 * r <= 13 * w
                /\ 13 * w < 10 * (r + 1)
                /\ op[s].out.count = Len(conversations[s])

\* C8 witness: a count was returned for several turns on which the two ways
\* of rounding differ
C8_Witness ==
    \E s \in Chats :
        /\ StatsReturned(s)
        /\ Len(conversations[s]) >= 2
        /\ op[s].out.tokens[2] # SumOfRounded(conversations[s])

\* C9: an error that reaches the caller from the dispatch, at messages.create
\* or while the stream is read, is the unchanged rate-limit error after 3
\* attempts, or the invalid-request wrapping, or the generic wrapping.
C9_ErrorsClassified ==
    \A s \in Chats :
        (/\ op[s].pc = "done"
         /\ op[s].kind \in {"chat", "stream"}
         /\ op[s].out.status = "raised"
         /\ op[s].out.at \in {"dispatch", "stream"}
         /\ op[s].out.exc.cls # "CancelledError") =>
            LET exc == op[s].out.exc
            IN  \/ /\ exc = [cls |-> RateLimited, prefix |-> "",
                             detail |-> RateLimited]
                   /\ op[s].log = <<RateLimited, RateLimited, RateLimited>>
                \/ exc = [cls |-> "Exception", prefix |-> "Invalid request",
                          detail |-> "BadRequestError"]
                \/ /\ exc.cls = "Exception"
                   /\ exc.prefix = "An error has occurred"
                   /\ exc.detail \notin {RateLimited, "BadRequestError"}

\* C10: when the summarisation raises, the call goes on to the dispatch with
\* the truncated turns; no error of the summarisation reaches the caller and
\* none starts another attempt: every attempt after the first follows a
\* messages.create of the dispatch that failed.
C10_SummaryFailureAbsorbed ==
    \A s \in Chats :
        LET fr == op[s]
        IN  /\ (fr.pc = "create" /\ fr.path = "truncate") =>
                   /\ fr.sum_exc \in ProviderErrors
                   /\ fr.out.status = "none"
                   /\ IsSuffix(conversations[s], fr.pre)
                   /\ fr.request.sent
                   /\ fr.request.messages = SelectSeq(conversations[s], IsChatTurn)
            /\ fr.pc \in {"summarise", "create"} => Len(fr.log) = fr.attempt - 1
            /\ fr.pc = "wait" => Len(fr.log) = fr.attempt
            /\ (fr.pc = "done" /\ fr.out.status = "raised"
                  /\ fr.out.at = "summarise") => fr.out.exc.cls = "CancelledError"

\* C10 witness: the dispatch is awaited after the summarisation raised a
\* rate-limit error
C10_Witness ==
    \E s \in Chats :
        /\ op[s].pc = "create"
        /\ op[s].path = "truncate"
        /\ op[s].sum_exc = RateLimited
        /\ op[s].attempt = 1

NotFinished == <<"not_finished">>

\* C11, for one step of chat s.  Of what get_chat_response_stream has yielded:
\* every element but the last is tagged not_finished; a not_finished element
\* carries the text received so far and extends the text of the element
\* before it; an element with another tag is there exactly when the reply was
\* added, it is the last, and its tag is the token count, as a string, of the
\* turns with the reply.  The reply is added once, by the step that finds the
\* stream exhausted, which is the step that yields the last element; once
\* the call has ended nothing more is yielded.
C11_Step(s) ==
    LET fr  == op[s]
        fr2 == op'[s]
        y   == fr.yielded
        y2  == fr2.yielded
        n2  == Len(y2)
    IN  /\ fr2.kind = "stream" =>
               /\ \A i \in 1..(n2 - 1) :
                      /\ y2[i].status = NotFinished
                      /\ y2[i + 1].status = NotFinished =>
                             IsPrefix(y2[i].text, y2[i + 1].text)
               /\ (n2 > 0 /\ y2[n2].status = NotFinished) =>
                      y2[n2].text = fr2.answer
               /\ fr2.commits <= 1
               /\ (n2 > 0 /\ y2[n2].status # NotFinished) <=> fr2.commits = 1
               /\ fr2.commits = 1 =>
                      /\ fr2.pc = "done"
                      /\ fr2.out.status = "returned"
                      /\ y2[n2].status =
                             <<"str", count_tokens(conversations'[s])>>
                      /\ y2[n2].text = LastTurn(conversations'[s]).content
        /\ (fr.kind = "stream" /\ fr2.commits > fr.commits) =>
               /\ fr.pc = "stream"
               /\ fr.chunks = <<>>
               /\ conversations'[s] =
                      Append(conversations[s],
                             [role |-> "assistant", content |-> y2[n2].text])
               /\ y2 = Append(y, y2[n2])
        /\ (fr.kind = "stream" /\ y2 # y /\ fr2.pc # "idle") =>
               /\ fr.pc = "stream"
               /\ Len(y2) = Len(y) + 1
               /\ SubSeq(y2, 1, Len(y)) = y
        /\ (fr.kind = "stream" /\ fr.pc = "done") => fr2.pc \in {"done", "idle"}

\* C11: what get_chat_response_stream yields and when it adds the reply, at
\* every step
C11_StreamSequence == [][\A s \in Chats : C11_Step(s)]_vars

\* C11 witness: a stream has ended after two not_finished elements, and the
\* last element carries the stripped text, which does not extend theirs
C11_Witness ==
    \E s \in Chats :
        /\ op[s].kind = "stream"
        /\ op[s].pc = "done"
        /\ op[s].out.status = "returned"
        /\ Len(op[s].yielded) = 3
        /\ op[s].yielded[2].text = <<" ", "a">>
        /\ op[s].yielded[3].text = <<"a">>

\* the step is get_conversation_stats on s
StatsStep(s) == op[s].pc = "idle" /\ op'[s].kind = "stats"

\* C12: get_conversation_stats returns.  On a chat id that is not known it
\* stores the one system turn with the configured prompt and a false vision
\* flag, and returns 1 and the token count of that turn; on a known chat id it
\* leaves turns and vision flag as they are and returns the number of turns
\* and their token count.  It never touches last_updated.
C12_StatsFrame ==
    [][\A s \in Chats :
          StatsStep(s) =>
              LET out == op'[s].out
                  sys == <<[role |-> "system",
                            content |-> config.assistant_prompt]>>
              IN  /\ op'[s].pc = "done"
                  /\ out.status = "returned"
                  /\ last_updated' = last_updated
                  /\ IF s \notin DOMAIN conversations
                     THEN /\ conversations'[s] = sys
                          /\ conversations_vision'[s] = FALSE
                          /\ out.count = 1
                          /\ out.tokens = <<"int", count_tokens(sys)>>
                     ELSE /\ conversations' = conversations
                          /\ conversations_vision' = conversations_vision
                          /\ out.count = Len(conversations[s])
                          /\ out.tokens =
                                 <<"int", count_tokens(conversations[s])>>]_vars

\* C12 witness: get_conversation_stats has returned for a chat id that was
\* not known
C12_Witness ==
    \E s \in Chats :
        /\ StatsReturned(s)
        /\ op[s].loaded = "absent"
        /\ op[s].out.count = 1
        /\ conversations[s] = <<[role |-> "system", content |-> <<"a">>]>>
        /\ s \notin DOMAIN last_updated

\* the step adds the reply of the call on s
ReplyCommitted(s) == op'[s].commits > op[s].commits

\* C13, where the reply is added: it is appended right after a user turn
\* that holds the query of the call.
C13_AppendedAfterQuery(s) ==
    ReplyCommitted(s) =>
        /\ LastTurn(conversations[s]) = [role |-> "user", content |-> op[s].query]
        /\ Len(conversations'[s]) = Len(conversations[s]) + 1
        /\ SubSeq(conversations'[s], 1, Len(conversations[s])) = conversations[s]
        /\ LastTurn(conversations'[s]).role = "assistant"

\* C13, afterwards: a step that cuts the turns of s to their last turns does
\* not keep a reply (an assistant turn that follows a user turn) without the
\* user turn before it.
C13_PairKept(s) ==
    (s \in DOMAIN conversations /\ s \in DOMAIN conversations') =>
        LET conv  == conversations[s]
            conv2 == conversations'[s]
            k     == Len(conv) - Len(conv2)
        IN  (k > 0 /\ conv2 # <<>> /\ IsSuffix(conv2, conv)) =>
                ~(conv2[1].role = "assistant" /\ conv[k].role = "user")

\* C13: every reply is added right after the user turn of its query, and
\* stays right after it as long as it is held.
C13_ReplyFollowsQuery ==
    [][\A s \in Chats : C13_AppendedAfterQuery(s) /\ C13_PairKept(s)]_vars

\* the system instructions an initialization or a reset can set
Instructions == {config.assistant_prompt} \cup (ResetContents \ {EmptyText})

\* C14: whenever messages.create of the dispatch is awaited, its system
\* argument is the content of the system turn the chat begins with, one of the
\* instructions an initialization or a reset sets, and its messages are the
\* user and assistant turns of the chat, and no other.
C14_SystemPassed ==
    \A s \in Chats :
        op[s].pc = "create" =>
            LET req  == op[s].request
                conv == conversations[s]
            IN  /\ req.sent
                /\ conv[1].role = "system"
                /\ req.system = [present |-> TRUE, content |-> conv[1].content]
                /\ conv[1].content \in Instructions
                /\ \A i \in 1..Len(req.messages) :
                       req.messages[i].role \in {"user", "assistant"}
                /\ req.messages = SubSeq(conv, 2, Len(conv))

\* C15: whenever messages.create of the dispatch is awaited, the chat holds at
\* most max_history_size turns and its token count plus max_tokens does not
\* exceed the limit of the model.
C15_WithinBudget ==
    \A s \in Chats :
        op[s].pc = "create" =>
            /\ Len(conversations[s]) <= config.max_history_size
            /\ count_tokens(conversations[s]) + config.max_tokens
                   <= default_max_tokens(config.model)

\* the step starts a retried attempt of the call on s
RetryStarts(s) == op[s].pc = "wait" /\ AttemptStarts(s)

\* C18: the query of a call is added when the call starts, as one user turn;
\* an attempt started by the retry policy, when no history management is
\* triggered, leaves the turns as they are and only repeats messages.create.
C18_AdmittedOnce ==
    [][\A s \in Chats :
          /\ CallStarts(s) =>
                 LastTurn(conversations'[s]) =
                     [role |-> "user", content |-> op'[s].query]
          /\ (RetryStarts(s) /\ op'[s].path = "none") =>
                 /\ op'[s].pc = "create"
                 /\ conversations'[s] = conversations[s]]_vars

\* the step gives last_updated of s a value it did not have
Stamped(s) ==
    /\ s \in DOMAIN last_updated'
    /\ s \in DOMAIN last_updated => last_updated'[s] # last_updated[s]

\* the step replaces the turns of s by their last turns (the truncation)
TruncateStep(s) == op[s].pc = "summarise" /\ op'[s].path = "truncate"

\* C16: last_updated of a chat is given a new value only by a step that adds
\* the user turn of a query, and every such step sets it to the time of the
\* step, so that the next evaluation of the chat's age reads it;
\* reset_chat_history, get_conversation_stats, the summary, the truncation
\* and the adding of the reply leave last_updated as it is, and no entry is
\* ever removed.
C16_LastActivity ==
    [][\A s \in Chats :
          /\ Stamped(s) => AttemptStarts(s)
          /\ AttemptStarts(s) =>
                 /\ last_updated'[s] = now'
                 /\ LastTurn(conversations'[s]) =
                        [role |-> "user", content |-> op'[s].query]
          /\ s \in DOMAIN last_updated => s \in DOMAIN last_updated'
          /\ (\/ ExplicitReset(s) \/ StatsStep(s) \/ SummaryArrives(s)
              \/ TruncateStep(s) \/ ReplyCommitted(s)) =>
                 last_updated' = last_updated]_vars

\* C16 witness: a reply was added later than its query, and last_updated
\* still holds the time of the query
C16_Witness ==
    \E s \in Chats :
        /\ op[s].pc = "done"
        /\ op[s].commits = 1
        /\ s \in DOMAIN last_updated
        /\ last_updated[s] > 0
        /\ last_updated[s] < now

\* a call of get_chat_response(_stream) has returned with show_usage set
ReturnedWithUsage(s) ==
    /\ op[s].pc = "done"
    /\ op[s].kind \in {"chat", "stream"}
    /\ op[s].out.status = "returned"
    /\ config.show_usage

\* C17: when a call returns with show_usage set, the last turn of the chat is
\* the assistant turn holding the reply text as received (stripped, on the
\* streaming path), the usage suffix being only in what is returned; the
\* token count in the suffix and in the second element returned is that of
\* the turns of the chat with the reply added.
C17_SuffixNotStored ==
    \A s \in Chats :
        ReturnedWithUsage(s) =>
            LET fr   == op[s]
                conv == conversations[s]
                n    == Len(fr.yielded)
                received == IF fr.kind = "chat" THEN fr.answer
                            ELSE IF n >= 2 THEN Strip(fr.yielded[n - 1].text)
                            ELSE <<>>
            IN  /\ LastTurn(conv) = [role |-> "assistant", content |-> received]
                /\ fr.out.text = received
                /\ fr.out.usage = <<count_tokens(conv), "tokens">>
                /\ fr.out.tokens[2] = count_tokens(conv)
                /\ fr.kind = "stream" => fr.yielded[n].usage = fr.out.usage

\* C17 witness: get_chat_response has returned with the usage suffix on a
\* chat whose history had been replaced by a summary
C17_Witness ==
    \E s \in Chats :
        /\ ReturnedWithUsage(s)
        /\ op[s].kind = "chat"
        /\ Len(conversations[s]) = 4
        /\ conversations[s][1].role = "system"
        /\ conversations[s][2].role = "assistant"
        /\ op[s].out.usage # <<>>

\* the step leaves the entry of s in the dict d as it is (d2 is d after it)
SameEntry(d, d2, s) ==
    /\ s \in DOMAIN d <=> s \in DOMAIN d2
    /\ s \in DOMAIN d => d2[s] = d[s]

\* the step leaves the turns, the vision flag and last_updated of s as they
\* are
SessionUnchanged(s) ==
    /\ SameEntry(conversations, conversations', s)
    /\ SameEntry(conversations_vision, conversations_vision', s)
    /\ SameEntry(last_updated, last_updated', s)

\* C19: a step of a call on a chat id a (its coroutine moves: it starts, is
\* resumed from the summarisation, from messages.create or from the retry's
\* sleep, or ends), and a reset of a, leave the turns, the vision flag and
\* last_updated of every other chat id b as they are, and leave the call
\* on b where it is.
C19_SessionsIsolated ==
    [][\A a \in Chats : \A b \in Chats \ {a} :
          (op'[a] # op[a] \/ ~SessionUnchanged(a)) =>
              /\ SessionUnchanged(b)
              /\ op'[b] = op[b]]_vars

\* C19 witness: the call on one chat id is in the retry's sleep it began at
\* time 0, and a call on another chat id that started at time 20 has added
\* its query and its reply and has returned
C19_Witness ==
    \E a \in Chats : \E b \in Chats \ {a} :
        /\ op[a].pc = "wait"
        /\ op[a].wake_at = 20
        /\ last_updated[a] = 0
        /\ b \in DOMAIN last_updated
        /\ last_updated[b] = 20
        /\ op[b].pc = "done"
        /\ op[b].commits = 1
        /\ op[b].out.status = "returned"
        /\ Len(conversations[a]) = 2
        /\ Len(conversations[b]) = 3

\* C20: with max_tokens at or above default_max_tokens(model), while an
\* attempt of a call awaits the summarisation or messages.create and the
\* turns it held once the query was added count at least 1 token, the history
\* management was entered: the summarisation is awaited, no messages.create
\* issued yet, or it has returned or raised before messages.create; and this
\* with no more turns than max_history_size.  With a count of 0 it was not
\* entered.
C20_AlwaysCompresses ==
    \A s \in Chats :
        (/\ config.max_tokens >= default_max_tokens(config.model)
         /\ op[s].pc \in {"summarise", "create"}) =>
            LET fr == op[s]
            IN  /\ Len(fr.pre) <= config.max_history_size
                /\ count_tokens(fr.pre) >= 1 =>
                       /\ fr.path \in {"pending", "summarise", "truncate"}
                       /\ fr.pc = "summarise" <=> fr.path = "pending"
                       /\ fr.pc = "summarise" => ~fr.request.sent
                /\ (count_tokens(fr.pre) = 0
                      /\ config.max_tokens = default_max_tokens(config.model)) =>
                       fr.pc = "create" /\ fr.path = "none"

\* C20 witness: under the defaults the summarisation is awaited for a chat of
\* two turns that count 1 token
C20_Witness ==
    \E s \in Chats :
        /\ config = CfgDefault
        /\ config.max_tokens = default_max_tokens(config.model)
        /\ op[s].pc = "summarise"
        /\ Len(op[s].pre) = 2
        /\ count_tokens(op[s].pre) = 1

====
